---- MODULE Spec2Model ----
(***************************************************************************)
(* Ledger engine of the banking API: processDeposit, processWithdrawal and *)
(* processTransfer of AccountRepository, run by concurrent requests        *)
(* against one PostgreSQL database (READ COMMITTED, row locks taken by     *)
(* SELECT ... FOR UPDATE, tables accounts and transactions).               *)
(*                                                                         *)
(* Units.  A DECIMAL(15,2) column holds whole cents; the model writes such *)
(* a stored value as an integer number of cents.  A JavaScript number (an  *)
(* amount of a request, a parseFloat result, a computed balance) is written*)
(* as an integer number of mills (tenths of a cent), so that amounts with  *)
(* more than two decimals, which the service accepts, exist in the model.  *)
(***************************************************************************)
EXTENDS Integers, Sequences, FiniteSets, TLC

\* ---------------------------------------------------------------- bounds
NumAccounts == 3     \* rows of table accounts
InitCents == 1       \* balance of every account at the start, in cents
NumWithdrawals == 3  \* requests of the concurrent-withdrawal scenario
PoolMax == 3         \* clients of the pool (max of the pool configuration,
                     \* scaled to the number of requests in flight)

\* the concurrent requests of the general specification
Procs == {1, 2}
Accounts == 1..NumAccounts
\* account identifiers a request can name: the existing rows and one absent id
AccountIds == 1..(NumAccounts + 1)
\* request amounts in mills: -0.01 and 0 (rejected), 0.004, 0.005, 0.01, 0.02
AmountInputs == {-10, 0, 4, 5, 10, 20}

NoProc == 0
NULL == -1

\* ------------------------------------------------------------ conversions
MillsPerCent == 10

\* parseFloat(balance): the DECIMAL(15,2) text of a stored value read back as
\* a number.
ParseFloat(cents) == cents * MillsPerCent

\* x.toString() bound to a DECIMAL(15,2) column: PostgreSQL rounds the value
\* to two decimals, ties away from zero.
StoreDecimal(mills) ==
    IF mills >= 0
    THEN (mills + (MillsPerCent \div 2)) \div MillsPerCent
    ELSE 0 - ((0 - mills + (MillsPerCent \div 2)) \div MillsPerCent)

\* CHECK (balance >= 0) of table accounts
BalanceCheck(cents) == cents >= 0

\* CHECK (amount > 0) removed from table transactions
AmountCheck_None(cents) == TRUE

\* CHECK (amount > 0) of table transactions
AmountCheck(cents) == cents > 0

\* ------------------------------------------------------------------ state
VARIABLES
    balance,     \* committed accounts.balance, in cents, per account
    txlog,       \* committed rows of table transactions, in commit order
    lockHolder,  \* per account: the request whose transaction holds its row lock
    pc,          \* per request: the statement it is about to run
    op,          \* per request: kind, accounts, amount, reference number
    rd,          \* per request: the balances its FOR UPDATE reads returned
    wbal,        \* per request: its uncommitted UPDATEs of accounts.balance
    wrec,        \* per request: its uncommitted INSERTs into transactions
    err,         \* per request: the error caught, before ROLLBACK has run
    res,         \* per request: what the caller received
    ret,         \* per request: the rows or snapshot returned to the caller
    accountRow,  \* per account: the columns of its row other than balance
    client       \* per request: the pooled client it took with pool.connect()

vars == <<balance, txlog, lockHolder, pc, op, rd, wbal, wrec, err, res, ret,
          accountRow, client>>

\* columns user_id, account_type, currency and status of a row of table
\* accounts as createAccount inserts it: status defaults to 'active'
NewAccountRow ==
    [user_id |-> 1, account_type |-> "checking", currency |-> "USD",
     status |-> "active"]

\* a request's pooled client: whether it is checked out or was released, how
\* many times client.release() ran, and whether a transaction is open on it
NoClient == [state |-> "none", released |-> 0, inTxn |-> FALSE]

NoOp == [kind |-> "none", from |-> 0, to |-> 0, amount |-> 0, ref |-> 0]
NoRead == [from |-> NULL, to |-> NULL]
NoWrites == [a \in Accounts |-> NULL]

\* the requests in flight
Requests == DOMAIN pc

InTxn == {"lockFrom", "lockTo", "updateFrom", "updateTo",
          "insertOut", "insertIn", "commit"}

InitWith(procs) ==
    /\ balance = [a \in Accounts |-> InitCents]
    /\ txlog = <<>>
    /\ lockHolder = [a \in Accounts |-> NoProc]
    /\ pc = [p \in procs |-> "idle"]
    /\ op = [p \in procs |-> NoOp]
    /\ rd = [p \in procs |-> NoRead]
    /\ wbal = [p \in procs |-> NoWrites]
    /\ wrec = [p \in procs |-> <<>>]
    /\ err = [p \in procs |-> "none"]
    /\ res = [p \in procs |-> "none"]
    /\ ret = [p \in procs |-> <<>>]
    /\ accountRow = [a \in Accounts |-> NewAccountRow]
    /\ client = [p \in procs |-> NoClient]

Init == InitWith(Procs)

\* -------------------------------------------------------------- helpers
\* a transfer_in row whose reference number is a value of its own, unrelated
\* to the one generated for the transfer
RefSuffixed_OwnValue(r, fromAccountId) == <<r + Cardinality(Procs), 0>>

\* reference_number of a deposit, withdrawal or transfer_out row: the generated
\* value; of a transfer_in row: `${referenceNumber}-${fromAccountId}`.
RefPlain(r) == <<r, 0>>
RefSuffixed(r, fromAccountId) == <<r, fromAccountId>>

IsTransfer(p) == op[p].kind = "transfer"

\* rows of table transactions that other open transactions have inserted and
\* not yet committed
PendingElsewhere(p) ==
    UNION {{wrec[q][i] : i \in 1..Len(wrec[q])} : q \in Requests \ {p}}

Committed == {txlog[i] : i \in 1..Len(txlog)}

\* reference_number without its UNIQUE constraint: no INSERT is refused
RefCommitted_NoIndex(ref) == FALSE

\* UNIQUE (reference_number): a committed row with the same value makes the
\* INSERT fail; an uncommitted row of another transaction makes it wait.
RefCommitted(ref) == \E t \in Committed : t.reference_number = ref
RefPending(p, ref) == \E t \in PendingElsewhere(p) : t.reference_number = ref
\* a row the transaction itself inserted counts like a committed one
RefOwn(p, ref) ==
    \E i \in 1..Len(wrec[p]) : wrec[p][i].reference_number = ref

ReleaseLocks(p) ==
    [a \in Accounts |-> IF lockHolder[a] = p THEN NoProc ELSE lockHolder[a]]

\* amount that accepts 0
ValidAmount_AcceptsZero(amount) == amount >= 0

\* the validation every service method applies to its amount:
\* !amount || amount <= 0 || isNaN(amount) throws
ValidAmount(amount) == amount > 0

\* the ValidationErrors of the service, with their messages
AmountError == "ValidationError: Amount must be greater than 0"
SameAccountError == "ValidationError: Cannot transfer to the same account"

\* pool.connect(): the pool hands out at most PoolMax clients; a request holds
\* its client from connect to release, that is while its transaction is open
CheckedOut == {q \in Requests : pc[q] \in InTxn \cup {"rollback"}}
PoolExhausted == Cardinality(CheckedOut) >= PoolMax

\* where processDeposit / processWithdrawal / processTransfer stands after
\* pool.connect() and BEGIN, which touch no shared row: at its first query, or
\* still in pool.connect() when every client is checked out
AfterConnect == IF PoolExhausted THEN "connect" ELSE "lockFrom"

\* const client = await this.pool.connect(); await client.query("BEGIN")
Checkout(p) ==
    [client EXCEPT ![p] = [state |-> "checkedOut", released |-> @.released,
                           inTxn |-> TRUE]]

\* the request's client after the same stretch of code
ClientAfterConnect(p) == IF PoolExhausted THEN client ELSE Checkout(p)

\* the transaction on the client has ended (COMMIT, ROLLBACK, or the server
\* dropping a lost connection); finally: client.release()
Release(p) ==
    [client EXCEPT ![p] = [state |-> "released", released |-> @.released + 1,
                           inTxn |-> FALSE]]

\* generateReferenceNumber(): `TXN${Date.now()}${random below 1000}`.  The value
\* is either one no earlier request was given (written as the request's own
\* number) or, when clock and random draw coincide, one that an earlier request
\* was given.
generateReferenceNumber(p) ==
    {p} \cup {op[q].ref : q \in {x \in Requests : op[x].ref # 0}}

\* --------------------------------------------------- service entry points
\* AccountService.deposit / withdraw: validate, generate the reference number,
\* then processDeposit / processWithdrawal up to its first query
\* (pool.connect and BEGIN touch no shared row).
StartSingle(p, kind) ==
    /\ pc[p] = "idle"
    /\ \E a \in AccountIds, amt \in AmountInputs :
         IF ValidAmount(amt)
         THEN \E r \in generateReferenceNumber(p) :
                /\ op' = [op EXCEPT ![p] = [kind |-> kind, from |-> a, to |-> 0,
                                            amount |-> amt, ref |-> r]]
                /\ pc' = [pc EXCEPT ![p] = AfterConnect]
                /\ res' = res
                /\ client' = ClientAfterConnect(p)
         ELSE /\ client' = client
              /\ op' = [op EXCEPT ![p] = [kind |-> kind, from |-> a, to |-> 0,
                                          amount |-> amt, ref |-> 0]]
              /\ pc' = [pc EXCEPT ![p] = "done"]
              /\ res' = [res EXCEPT ![p] = AmountError]
    /\ UNCHANGED <<balance, txlog, lockHolder, rd, wbal, wrec, err, ret,
                   accountRow>>

deposit(p) == StartSingle(p, "deposit")

withdraw(p) == StartSingle(p, "withdrawal")

\* fromAccountId === toAccountId with a comparison that never matches
SameAccount_Never(f, t) == FALSE

\* fromAccountId === toAccountId
SameAccount(f, t) == f = t

\* AccountService.transfer: validate (source # destination, then amount),
\* generate the reference number, then processTransfer up to its first query
transfer(p) ==
    /\ pc[p] = "idle"
    /\ \E f \in AccountIds, t \in AccountIds, amt \in AmountInputs :
         IF ~SameAccount(f, t) /\ ValidAmount(amt)
         THEN \E r \in generateReferenceNumber(p) :
                /\ op' = [op EXCEPT ![p] = [kind |-> "transfer", from |-> f,
                                            to |-> t, amount |-> amt, ref |-> r]]
                /\ pc' = [pc EXCEPT ![p] = AfterConnect]
                /\ res' = res
                /\ client' = ClientAfterConnect(p)
         ELSE /\ client' = client
              /\ op' = [op EXCEPT ![p] = [kind |-> "transfer", from |-> f,
                                          to |-> t, amount |-> amt, ref |-> 0]]
              /\ pc' = [pc EXCEPT ![p] = "done"]
              /\ res' = [res EXCEPT ![p] = IF SameAccount(f, t)
                                           THEN SameAccountError
                                           ELSE AmountError]
    /\ UNCHANGED <<balance, txlog, lockHolder, rd, wbal, wrec, err, ret,
                   accountRow>>

\* ----------------------------------------------------- repository steps
\* SELECT balance ... without FOR UPDATE: the read waits for no one
LockFree_Shared(p, a) == TRUE

\* getAccountBalance(id, client): SELECT balance ... FOR UPDATE.  An absent row
\* yields null and locks nothing; a present row is returned, locked, once no
\* other transaction holds its lock, with its latest committed balance.
LockFree(p, a) == lockHolder[a] \in {NoProc, p}

\* the accounts a request reads FOR UPDATE, in the order it issues the reads:
\* processTransfer reads fromAccountId, then toAccountId
LockOrder(p) ==
    IF IsTransfer(p) THEN <<op[p].from, op[p].to>> ELSE <<op[p].from>>

\* LockFrom with a plain SELECT of the balance: no FOR UPDATE, no row lock, no
\* wait
LockFrom_PlainSelect(p) ==
    /\ pc[p] = "lockFrom"
    /\ LET a == LockOrder(p)[1] IN
       rd' = [rd EXCEPT ![p].from = IF a \in Accounts THEN balance[a] ELSE NULL]
    /\ pc' = [pc EXCEPT ![p] = IF IsTransfer(p) THEN "lockTo" ELSE "updateFrom"]
    /\ UNCHANGED <<balance, txlog, lockHolder, op, wbal, wrec, err, res, ret,
                   accountRow, client>>

LockFrom(p) ==
    /\ pc[p] = "lockFrom"
    /\ LET a == LockOrder(p)[1] IN
       IF a \in Accounts
       THEN /\ LockFree(p, a)
            /\ lockHolder' = [lockHolder EXCEPT ![a] = p]
            /\ rd' = [rd EXCEPT ![p].from = balance[a]]
       ELSE /\ lockHolder' = lockHolder
            /\ rd' = [rd EXCEPT ![p].from = NULL]
    /\ pc' = [pc EXCEPT ![p] = IF IsTransfer(p) THEN "lockTo" ELSE "updateFrom"]
    /\ UNCHANGED <<balance, txlog, op, wbal, wrec, err, res, ret, accountRow, client>>

\* LockTo with a plain SELECT of the destination balance: no FOR UPDATE, no
\* row lock, no wait
LockTo_PlainSelect(p) ==
    /\ pc[p] = "lockTo"
    /\ LET a == LockOrder(p)[2] IN
       rd' = [rd EXCEPT ![p].to = IF a \in Accounts THEN balance[a] ELSE NULL]
    /\ pc' = [pc EXCEPT ![p] = "updateFrom"]
    /\ UNCHANGED <<balance, txlog, lockHolder, op, wbal, wrec, err, res, ret,
                   accountRow, client>>

LockTo(p) ==
    /\ pc[p] = "lockTo"
    /\ LET a == LockOrder(p)[2] IN
       IF a \in Accounts
       THEN /\ LockFree(p, a)
            /\ lockHolder' = [lockHolder EXCEPT ![a] = p]
            /\ rd' = [rd EXCEPT ![p].to = balance[a]]
       ELSE /\ lockHolder' = lockHolder
            /\ rd' = [rd EXCEPT ![p].to = NULL]
    /\ pc' = [pc EXCEPT ![p] = "updateFrom"]
    /\ UNCHANGED <<balance, txlog, op, wbal, wrec, err, res, ret, accountRow, client>>

\* Validate without the null test on toBalance
Validate_NoDestinationCheck(p) ==
    IF rd[p].from = NULL THEN "AccountNotFound"
    ELSE IF op[p].kind # "deposit" /\ ParseFloat(rd[p].from) < op[p].amount
         THEN "InsufficientFunds"
    ELSE "none"

\* Validate with the funds test on withdrawals only
Validate_NoTransferFundsCheck(p) ==
    IF rd[p].from = NULL THEN "AccountNotFound"
    ELSE IF IsTransfer(p) /\ rd[p].to = NULL THEN "AccountNotFound"
    ELSE IF op[p].kind = "withdrawal" /\ ParseFloat(rd[p].from) < op[p].amount
         THEN "InsufficientFunds"
    ELSE "none"

\* The checks between the locked reads and the first UPDATE.
Validate(p) ==
    IF rd[p].from = NULL THEN "AccountNotFound"
    ELSE IF IsTransfer(p) /\ rd[p].to = NULL THEN "AccountNotFound"
    ELSE IF op[p].kind # "deposit" /\ ParseFloat(rd[p].from) < op[p].amount
         THEN "InsufficientFunds"
    ELSE "none"

\* x + y on JavaScript numbers.  The sum of two doubles is the decimal sum
\* except where binary rounding puts it just below: 0.03 + 0.005 is
\* 0.034999999999999996, 0.03 - 0.005 is 0.024999999999999998 and 0.09 - 0.005
\* is 0.08499999999999999 (all the cases with a balance up to 0.11 and the
\* amounts of AmountInputs).  Such a sum is written one mill lower: it is only
\* ever converted with toString() into a DECIMAL(15,2) column.
RoundedBelow == {<<30, 5>>, <<30, -5>>, <<90, -5>>}

JsAdd(x, y) == IF <<x, y>> \in RoundedBelow THEN x + y - 1 ELSE x + y

\* newBalance / newFromBalance / newToBalance, as JavaScript numbers
NewFromBalance(p) ==
    IF op[p].kind = "deposit"
    THEN JsAdd(ParseFloat(rd[p].from), op[p].amount)
    ELSE JsAdd(ParseFloat(rd[p].from), 0 - op[p].amount)

NewToBalance(p) == JsAdd(ParseFloat(rd[p].to), op[p].amount)

Throw(p, e) ==
    /\ err' = [err EXCEPT ![p] = e]
    /\ pc' = [pc EXCEPT ![p] = "rollback"]

\* UpdateFrom without the balanceBefore < amount test, on a balance column
\* that has no CHECK (balance >= 0)
UpdateFrom_Unguarded(p) ==
    /\ pc[p] = "updateFrom"
    /\ IF Validate(p) = "AccountNotFound"
       THEN /\ Throw(p, "AccountNotFound")
            /\ wbal' = wbal
       ELSE /\ wbal' = [wbal EXCEPT ![p][op[p].from] =
                            StoreDecimal(NewFromBalance(p))]
            /\ pc' = [pc EXCEPT ![p] =
                         IF IsTransfer(p) THEN "updateTo" ELSE "insertOut"]
            /\ err' = err
    /\ UNCHANGED <<balance, txlog, lockHolder, op, rd, wrec, res, ret,
                   accountRow, client>>

\* updateBalance whose UPDATE has no WHERE id = $1: it sets the balance of
\* every row
UpdateFrom_NoWhere(p) ==
    /\ pc[p] = "updateFrom"
    /\ IF Validate(p) # "none"
       THEN /\ Throw(p, Validate(p))
            /\ wbal' = wbal
       ELSE LET stored == StoreDecimal(NewFromBalance(p)) IN
            IF BalanceCheck(stored)
            THEN /\ wbal' = [wbal EXCEPT ![p] = [a \in Accounts |-> stored]]
                 /\ pc' = [pc EXCEPT ![p] =
                              IF IsTransfer(p) THEN "updateTo" ELSE "insertOut"]
                 /\ err' = err
            ELSE /\ Throw(p, "CheckViolation")
                 /\ wbal' = wbal
    /\ UNCHANGED <<balance, txlog, lockHolder, op, rd, wrec, res, ret,
                   accountRow, client>>

\* updateBalance(fromAccountId | accountId, newBalance, client), with the checks
\* that precede it in the same synchronous stretch of code.  The row is locked
\* by this transaction, so the UPDATE finds it (rows.length is never 0).
UpdateFrom(p) ==
    /\ pc[p] = "updateFrom"
    /\ IF Validate(p) # "none"
       THEN /\ Throw(p, Validate(p))
            /\ wbal' = wbal
       ELSE LET stored == StoreDecimal(NewFromBalance(p)) IN
            IF BalanceCheck(stored)
            THEN /\ wbal' = [wbal EXCEPT ![p][op[p].from] = stored]
                 /\ pc' = [pc EXCEPT ![p] =
                              IF IsTransfer(p) THEN "updateTo" ELSE "insertOut"]
                 /\ err' = err
            ELSE /\ Throw(p, "CheckViolation")
                 /\ wbal' = wbal
    /\ UNCHANGED <<balance, txlog, lockHolder, op, rd, wrec, res, ret,
                   accountRow, client>>

\* UpdateTo run on the pool instead of the transaction's client: the UPDATE
\* commits on its own
UpdateTo_Autocommit(p) ==
    /\ pc[p] = "updateTo"
    /\ balance' = [balance EXCEPT ![op[p].to] = StoreDecimal(NewToBalance(p))]
    /\ pc' = [pc EXCEPT ![p] = "insertOut"]
    /\ UNCHANGED <<txlog, lockHolder, op, rd, wbal, wrec, err, res, ret,
                   accountRow, client>>

\* updateBalance(toAccountId, newToBalance, client)
UpdateTo(p) ==
    /\ pc[p] = "updateTo"
    /\ LET stored == StoreDecimal(NewToBalance(p)) IN
       IF BalanceCheck(stored)
       THEN /\ wbal' = [wbal EXCEPT ![p][op[p].to] = stored]
            /\ pc' = [pc EXCEPT ![p] = "insertOut"]
            /\ err' = err
       ELSE /\ Throw(p, "CheckViolation")
            /\ wbal' = wbal
    /\ UNCHANGED <<balance, txlog, lockHolder, op, rd, wrec, res, ret,
                   accountRow, client>>

\* The row an INSERT INTO transactions stores: every numeric parameter goes
\* through toString() into a DECIMAL(15,2) column; status defaults to
\* 'completed'.  Field txn stands for the row's serial id: it tells which
\* request inserted the row.
Row(p, account, type, before, after, ref, related) ==
    [account_id |-> account, transaction_type |-> type,
     amount |-> StoreDecimal(op[p].amount),
     balance_before |-> StoreDecimal(before),
     balance_after |-> StoreDecimal(after),
     reference_number |-> ref, related_account_id |-> related,
     status |-> "completed", txn |-> p]

\* the deposit / withdrawal / transfer_out row
OutRow(p) ==
    Row(p, op[p].from,
        IF IsTransfer(p) THEN "transfer_out" ELSE op[p].kind,
        ParseFloat(rd[p].from), NewFromBalance(p), RefPlain(op[p].ref),
        IF IsTransfer(p) THEN op[p].to ELSE NULL)

\* a transfer_in row that records the balances of the source account
InRow_SourceBalances(p) ==
    Row(p, op[p].to, "transfer_in", ParseFloat(rd[p].from), NewFromBalance(p),
        RefSuffixed(op[p].ref, op[p].from), op[p].from)

\* the transfer_in row
InRow(p) ==
    Row(p, op[p].to, "transfer_in", ParseFloat(rd[p].to), NewToBalance(p),
        RefSuffixed(op[p].ref, op[p].from), op[p].from)

\* INSERT INTO transactions ... RETURNING *: the CHECK on amount, then the
\* unique index on reference_number.
Insert(p, row, next) ==
    IF ~AmountCheck(row.amount)
    THEN /\ Throw(p, "CheckViolation")
         /\ wrec' = wrec
    ELSE /\ ~RefPending(p, row.reference_number)
         /\ IF \/ RefCommitted(row.reference_number)
               \/ RefOwn(p, row.reference_number)
            THEN /\ Throw(p, "Conflict")
                 /\ wrec' = wrec
            ELSE /\ wrec' = [wrec EXCEPT ![p] = Append(@, row)]
                 /\ pc' = [pc EXCEPT ![p] = next]
                 /\ err' = err

InsertOut(p) ==
    /\ pc[p] = "insertOut"
    /\ Insert(p, OutRow(p), IF IsTransfer(p) THEN "insertIn" ELSE "commit")
    /\ UNCHANGED <<balance, txlog, lockHolder, op, rd, wbal, res, ret,
                   accountRow, client>>

InsertIn(p) ==
    /\ pc[p] = "insertIn"
    /\ Insert(p, InRow(p), "commit")
    /\ UNCHANGED <<balance, txlog, lockHolder, op, rd, wbal, res, ret,
                   accountRow, client>>

\* what COMMIT makes of the committed balances
ApplyWrites(p) ==
    [a \in DOMAIN balance |->
        IF a \in Accounts /\ wbal[p][a] # NULL THEN wbal[p][a] ELSE balance[a]]

\* Commit followed, inside the try block, by a statement that throws: COMMIT
\* has taken effect and the caller receives the error
Commit_ThenThrows(p) ==
    /\ pc[p] = "commit"
    /\ balance' = ApplyWrites(p)
    /\ txlog' = txlog \o wrec[p]
    /\ lockHolder' = ReleaseLocks(p)
    /\ wbal' = [wbal EXCEPT ![p] = NoWrites]
    /\ wrec' = [wrec EXCEPT ![p] = <<>>]
    /\ pc' = [pc EXCEPT ![p] = "done"]
    /\ res' = [res EXCEPT ![p] = "StorageFailure"]
    /\ client' = Release(p)
    /\ UNCHANGED <<op, rd, err, ret, accountRow>>

\* client.query("COMMIT"); return transactionResult.rows[0] (of a transfer:
\* outgoingTransaction.rows[0]), the row the first INSERT returned; finally
\* client.release()
Commit(p) ==
    /\ pc[p] = "commit"
    /\ balance' = ApplyWrites(p)
    /\ txlog' = txlog \o wrec[p]
    /\ lockHolder' = ReleaseLocks(p)
    /\ wbal' = [wbal EXCEPT ![p] = NoWrites]
    /\ wrec' = [wrec EXCEPT ![p] = <<>>]
    /\ pc' = [pc EXCEPT ![p] = "done"]
    /\ res' = [res EXCEPT ![p] = "ok"]
    /\ ret' = [ret EXCEPT ![p] = <<wrec[p][1]>>]
    /\ client' = Release(p)
    /\ UNCHANGED <<op, rd, err, accountRow>>

\* a catch block that rolls back and rethrows with no finally block: the client
\* is never handed back to the pool
Rollback_KeepsClient(p) ==
    /\ pc[p] = "rollback"
    /\ lockHolder' = ReleaseLocks(p)
    /\ wbal' = [wbal EXCEPT ![p] = NoWrites]
    /\ wrec' = [wrec EXCEPT ![p] = <<>>]
    /\ pc' = [pc EXCEPT ![p] = "done"]
    /\ res' = [res EXCEPT ![p] = err[p]]
    /\ client' = [client EXCEPT ![p].inTxn = FALSE]
    /\ UNCHANGED <<balance, txlog, op, rd, err, ret, accountRow>>

\* Rollback that makes the balance writes permanent (a catch block that ends
\* the transaction with COMMIT)
Rollback_KeepsBalances(p) ==
    /\ pc[p] = "rollback"
    /\ balance' = ApplyWrites(p)
    /\ lockHolder' = ReleaseLocks(p)
    /\ wbal' = [wbal EXCEPT ![p] = NoWrites]
    /\ wrec' = [wrec EXCEPT ![p] = <<>>]
    /\ pc' = [pc EXCEPT ![p] = "done"]
    /\ res' = [res EXCEPT ![p] = err[p]]
    /\ client' = Release(p)
    /\ UNCHANGED <<txlog, op, rd, err, ret, accountRow>>

\* a catch block that compensates by deleting the rows of the account instead
\* of relying on ROLLBACK
Rollback_DeletesRows(p) ==
    /\ pc[p] = "rollback"
    /\ txlog' = SelectSeq(txlog, LAMBDA t : t.account_id # op[p].from)
    /\ lockHolder' = ReleaseLocks(p)
    /\ wbal' = [wbal EXCEPT ![p] = NoWrites]
    /\ wrec' = [wrec EXCEPT ![p] = <<>>]
    /\ pc' = [pc EXCEPT ![p] = "done"]
    /\ res' = [res EXCEPT ![p] = err[p]]
    /\ client' = Release(p)
    /\ UNCHANGED <<balance, op, rd, err, ret, accountRow>>

\* catch: client.query("ROLLBACK"); throw error; finally client.release()
Rollback(p) ==
    /\ pc[p] = "rollback"
    /\ lockHolder' = ReleaseLocks(p)
    /\ wbal' = [wbal EXCEPT ![p] = NoWrites]
    /\ wrec' = [wrec EXCEPT ![p] = <<>>]
    /\ pc' = [pc EXCEPT ![p] = "done"]
    /\ res' = [res EXCEPT ![p] = err[p]]
    /\ client' = Release(p)
    /\ UNCHANGED <<balance, txlog, op, rd, err, ret, accountRow>>

\* the same when the ROLLBACK itself fails on a lost connection: the server
\* aborts the transaction, and the caller receives the error of the ROLLBACK
\* in place of the one that was caught
RollbackFailure(p) ==
    /\ pc[p] = "rollback"
    /\ lockHolder' = ReleaseLocks(p)
    /\ wbal' = [wbal EXCEPT ![p] = NoWrites]
    /\ wrec' = [wrec EXCEPT ![p] = <<>>]
    /\ pc' = [pc EXCEPT ![p] = "done"]
    /\ res' = [res EXCEPT ![p] = "StorageFailure"]
    /\ client' = Release(p)
    /\ UNCHANGED <<balance, txlog, op, rd, err, ret, accountRow>>

\* ------------------------------------------------------------ environment
\* the statement request p has sent and the database has not yet answered
Waiting(p) ==
    \/ pc[p] = "lockFrom" /\ LockOrder(p)[1] \in Accounts
                          /\ ~LockFree(p, LockOrder(p)[1])
    \/ pc[p] = "lockTo" /\ LockOrder(p)[2] \in Accounts
                        /\ ~LockFree(p, LockOrder(p)[2])
    \/ pc[p] = "insertOut" /\ AmountCheck(OutRow(p).amount)
                           /\ RefPending(p, OutRow(p).reference_number)
    \/ pc[p] = "insertIn" /\ AmountCheck(InRow(p).amount)
                          /\ RefPending(p, InRow(p).reference_number)

\* a pool configured without statement_timeout and query_timeout: a statement
\* that waits is never cancelled
StatementTimeout_Never(p) ==
    /\ FALSE
    /\ UNCHANGED vars

\* statement_timeout / query_timeout of the pool configuration: a statement
\* that waits is cancelled with an error.
StatementTimeout(p) ==
    /\ Waiting(p)
    /\ Throw(p, "Timeout")
    /\ UNCHANGED <<balance, txlog, lockHolder, op, rd, wbal, wrec, res, ret,
                   accountRow, client>>

\* the store fails a statement that was sent (connection lost, disk full ...)
StorageFailure(p) ==
    /\ pc[p] \in InTxn
    /\ pc[p] = "updateFrom" => Validate(p) = "none"
    /\ Throw(p, "StorageFailure")
    /\ UNCHANGED <<balance, txlog, lockHolder, op, rd, wbal, wrec, res, ret,
                   accountRow, client>>

\* ------------------------------------------------------------------ system
\* the steps of a started request against a store that answers every statement
Step(p) ==
    \/ LockFrom(p)
    \/ LockTo(p)
    \/ UpdateFrom(p)
    \/ UpdateTo(p)
    \/ InsertOut(p)
    \/ InsertIn(p)
    \/ Commit(p)
    \/ Rollback(p)

Next ==
    \E p \in Requests :
        \/ deposit(p)
        \/ withdraw(p)
        \/ transfer(p)
        \/ Step(p)
        \/ StatementTimeout(p)
        \/ StorageFailure(p)
        \/ RollbackFailure(p)

Spec == Init /\ [][Next]_vars

\* the same requests against a store that never fails and never times out
NextNoFault ==
    \E p \in Requests :
        \/ deposit(p)
        \/ withdraw(p)
        \/ transfer(p)
        \/ Step(p)

SpecNoFault == Init /\ [][NextNoFault]_vars

\* The requests against a store that answers every statement or cancels it on
\* timeout.  A started request is always run on: the event loop resumes it when
\* its statement is answered, the database answers a statement that does not
\* wait, and the timer of a statement that waits fires.
NextLive ==
    \E p \in Requests :
        \/ deposit(p)
        \/ withdraw(p)
        \/ transfer(p)
        \/ Step(p)
        \/ StatementTimeout(p)

SpecLive ==
    /\ Init
    /\ [][NextLive]_vars
    /\ \A p \in Procs : WF_vars(Step(p) \/ StatementTimeout(p))

\* test_concurrent_withdrawals.sh: make_withdrawal posts the same withdrawal
\* (one account, one amount) NumWithdrawals times at once; every request gets
\* its own reference number and nothing else touches the account.
make_withdrawal(p) ==
    /\ pc[p] = "idle"
    /\ \E a \in Accounts, amt \in AmountInputs :
         /\ ValidAmount(amt)
         /\ \A q \in Requests :
               op[q].kind # "none" => (op[q].from = a /\ op[q].amount = amt)
         /\ op' = [op EXCEPT ![p] = [kind |-> "withdrawal", from |-> a,
                                     to |-> 0, amount |-> amt, ref |-> p]]
    /\ pc' = [pc EXCEPT ![p] = AfterConnect]
    /\ client' = ClientAfterConnect(p)
    /\ UNCHANGED <<balance, txlog, lockHolder, rd, wbal, wrec, err, res, ret,
                   accountRow>>

InitWithdrawals == InitWith(1..NumWithdrawals)

NextWithdrawals ==
    \E p \in Requests :
        \/ make_withdrawal(p)
        \/ LockFrom(p)
        \/ UpdateFrom(p)
        \/ InsertOut(p)
        \/ Commit(p)
        \/ Rollback(p)

SpecWithdrawals == InitWithdrawals /\ [][NextWithdrawals]_vars

\* pool.connect() resolves once a client has been released
Connect(p) ==
    /\ pc[p] = "connect"
    /\ ~PoolExhausted
    /\ pc' = [pc EXCEPT ![p] = "lockFrom"]
    /\ client' = Checkout(p)
    /\ UNCHANGED <<balance, txlog, lockHolder, op, rd, wbal, wrec, err, res,
                   ret, accountRow>>

\* connectionTimeoutMillis of the pool configuration: pool.connect() rejects
\* when no client became free in time.  The call stands before the try block:
\* the error goes to the caller as it is.
ConnectTimeout(p) ==
    /\ pc[p] = "connect"
    /\ PoolExhausted
    /\ pc' = [pc EXCEPT ![p] = "done"]
    /\ res' = [res EXCEPT ![p] = "ConnectionTimeout"]
    /\ UNCHANGED <<balance, txlog, lockHolder, op, rd, wbal, wrec, err, ret,
                   accountRow, client>>

\* AccountService.withdraw as the requests of the pool scenario call it: on an
\* existing account, all with one amount, each with a reference number of its
\* own
pool_withdraw(p) ==
    /\ pc[p] = "idle"
    /\ \E a \in Accounts, amt \in AmountInputs :
         /\ ValidAmount(amt)
         /\ \A q \in Requests : op[q].kind # "none" => op[q].amount = amt
         /\ op' = [op EXCEPT ![p] = [kind |-> "withdrawal", from |-> a,
                                     to |-> 0, amount |-> amt, ref |-> p]]
    /\ pc' = [pc EXCEPT ![p] = AfterConnect]
    /\ client' = ClientAfterConnect(p)
    /\ UNCHANGED <<balance, txlog, lockHolder, rd, wbal, wrec, err, res, ret,
                   accountRow>>

\* one request more than the pool has clients
InitPool == InitWith(1..(PoolMax + 1))

NextPool ==
    \E p \in Requests :
        \/ pool_withdraw(p)
        \/ Connect(p)
        \/ ConnectTimeout(p)
        \/ LockFrom(p)
        \/ UpdateFrom(p)
        \/ InsertOut(p)
        \/ Commit(p)
        \/ Rollback(p)

SpecPool == InitPool /\ [][NextPool]_vars

\* getAccountById read at READ UNCOMMITTED: it sees the balance an open
\* transaction has written
getAccountById_ReadUncommitted(a) ==
    IF \E q \in Requests : wbal[q][a] # NULL
    THEN wbal[CHOOSE q \in Requests : wbal[q][a] # NULL][a]
    ELSE balance[a]

\* AccountRepository.getAccountById(id): SELECT a.*, ... FROM accounts a JOIN
\* users u ... WHERE a.id = $1, run on the pool outside any transaction.  It
\* takes no row lock and waits for none; it sees the committed row.
getAccountById(a) == balance[a]

\* AccountService.getAccountBalance(accountId): the BalanceResponse built from
\* the row, balance: parseFloat(account.balance); AccountNotFoundError when
\* there is no row
getAccountBalance(p) ==
    /\ pc[p] = "idle"
    /\ \E a \in AccountIds :
         /\ op' = [op EXCEPT ![p] = [kind |-> "balance", from |-> a, to |-> 0,
                                     amount |-> 0, ref |-> 0]]
         /\ IF a \in Accounts
            THEN /\ res' = [res EXCEPT ![p] = "ok"]
                 /\ ret' = [ret EXCEPT ![p] =
                               <<[accountId |-> a,
                                  balance |-> ParseFloat(getAccountById(a))]>>]
            ELSE /\ res' = [res EXCEPT ![p] = "AccountNotFound"]
                 /\ ret' = ret
    /\ pc' = [pc EXCEPT ![p] = "done"]
    /\ UNCHANGED <<balance, txlog, lockHolder, rd, wbal, wrec, err,
                   accountRow, client>>

\* the requests of the read scenario: two GetBalance calls beside one deposit,
\* withdrawal or transfer
Readers == {1, 2}

InitRead == InitWith(1..3)

NextRead ==
    \/ \E p \in Readers : getAccountBalance(p)
    \/ \E p \in Requests \ Readers :
          \/ deposit(p)
          \/ withdraw(p)
          \/ transfer(p)
          \/ Step(p)
          \/ StorageFailure(p)

SpecRead == InitRead /\ [][NextRead]_vars

\* ------------------------------------------------------- account creation
\* initialBalance of a createAccount request, in mills: -0.01 (rejected), 0,
\* 0.004, 0.005, 0.01
InitialBalances == {-10, 0, 4, 5, 10}

NegativeBalanceError == "ValidationError: Initial balance cannot be negative"

\* id SERIAL of table accounts: every INSERT draws a value no other INSERT
\* draws, used or not.  Written as a value of the request's own, above the
\* ids that deposits, withdrawals and transfers name.
NewAccountId(p) == NumAccounts + 1 + p

InCreate == {"insertAccount", "insertInitial", "commitCreate"}

\* AccountService.createAccount: initialBalance < 0 is refused; the reference
\* number is generated; initialBalance > 0 goes to
\* createAccountWithInitialDeposit (pool.connect, BEGIN), 0 to
\* AccountRepository.createAccount
createAccount(p) ==
    /\ pc[p] = "idle"
    /\ \E initialBalance \in InitialBalances :
         IF initialBalance < 0
         THEN /\ client' = client
              /\ op' = [op EXCEPT ![p] = [kind |-> "create", from |-> 0,
                                          to |-> 0, amount |-> initialBalance,
                                          ref |-> 0]]
              /\ pc' = [pc EXCEPT ![p] = "done"]
              /\ res' = [res EXCEPT ![p] = NegativeBalanceError]
         ELSE \E r \in generateReferenceNumber(p) :
                /\ op' = [op EXCEPT ![p] = [kind |-> "create",
                                            from |-> NewAccountId(p),
                                            to |-> 0,
                                            amount |-> initialBalance,
                                            ref |-> r]]
                /\ pc' = [pc EXCEPT ![p] = IF initialBalance > 0
                                           THEN "insertAccount"
                                           ELSE "createPlain"]
                /\ res' = res
                /\ client' = IF initialBalance > 0 THEN Checkout(p)
                                                   ELSE client
    /\ UNCHANGED <<balance, txlog, lockHolder, rd, wbal, wrec, err, ret,
                   accountRow>>

\* the AccountResponse of createAccount: id and parseFloat(account.balance)
AccountResponse(id, cents) == [id |-> id, balance |-> ParseFloat(cents)]

\* AccountRepository.createAccount: one INSERT INTO accounts on the pool,
\* committed on its own, initial_balance.toString() into DECIMAL(15,2)
CreatePlain(p) ==
    /\ pc[p] = "createPlain"
    /\ LET stored == StoreDecimal(op[p].amount) IN
       /\ balance' = (op[p].from :> stored) @@ balance
       /\ accountRow' = (op[p].from :> NewAccountRow) @@ accountRow
       /\ ret' = [ret EXCEPT ![p] = <<AccountResponse(op[p].from, stored)>>]
    /\ pc' = [pc EXCEPT ![p] = "done"]
    /\ res' = [res EXCEPT ![p] = "ok"]
    /\ UNCHANGED <<txlog, lockHolder, op, rd, wbal, wrec, err, client>>

\* createAccountWithInitialDeposit: INSERT INTO accounts ... RETURNING * inside
\* the transaction
InsertAccount(p) ==
    /\ pc[p] = "insertAccount"
    /\ LET stored == StoreDecimal(op[p].amount) IN
       IF BalanceCheck(stored)
       THEN /\ wbal' = [wbal EXCEPT ![p] = (op[p].from :> stored) @@ @]
            /\ pc' = [pc EXCEPT ![p] = "insertInitial"]
            /\ err' = err
       ELSE /\ Throw(p, "CheckViolation")
            /\ wbal' = wbal
    /\ UNCHANGED <<balance, txlog, lockHolder, op, rd, wrec, res, ret,
                   accountRow, client>>

\* the row of the initial deposit: amount and balance_after
\* initial_balance.toString(), balance_before "0"
InitialRow(p) ==
    [account_id |-> op[p].from, transaction_type |-> "deposit",
     amount |-> StoreDecimal(op[p].amount),
     balance_before |-> StoreDecimal(0),
     balance_after |-> StoreDecimal(op[p].amount),
     reference_number |-> RefPlain(op[p].ref), related_account_id |-> NULL,
     status |-> "completed", txn |-> p]

\* createAccountWithInitialDeposit: if (initial_balance > 0) INSERT INTO
\* transactions
InsertInitial(p) ==
    /\ pc[p] = "insertInitial"
    /\ Insert(p, InitialRow(p), "commitCreate")
    /\ UNCHANGED <<balance, txlog, lockHolder, op, rd, wbal, res, ret,
                   accountRow, client>>

\* createAccountWithInitialDeposit: COMMIT; return account
CommitCreate(p) ==
    /\ pc[p] = "commitCreate"
    /\ balance' = (op[p].from :> wbal[p][op[p].from]) @@ balance
    /\ accountRow' = (op[p].from :> NewAccountRow) @@ accountRow
    /\ txlog' = txlog \o wrec[p]
    /\ wbal' = [wbal EXCEPT ![p] = NoWrites]
    /\ wrec' = [wrec EXCEPT ![p] = <<>>]
    /\ pc' = [pc EXCEPT ![p] = "done"]
    /\ res' = [res EXCEPT ![p] = "ok"]
    /\ ret' = [ret EXCEPT ![p] =
                  <<AccountResponse(op[p].from, wbal[p][op[p].from])>>]
    /\ client' = Release(p)
    /\ UNCHANGED <<lockHolder, op, rd, err>>

\* the store fails a statement of createAccountWithInitialDeposit (connection
\* lost, user_id without a users row ...)
CreateFailure(p) ==
    /\ pc[p] \in InCreate
    /\ Throw(p, "StorageFailure")
    /\ UNCHANGED <<balance, txlog, lockHolder, op, rd, wbal, wrec, res, ret,
                   accountRow, client>>

\* deposits, withdrawals and transfers beside account creations
NextCreate ==
    \/ Next
    \/ \E p \in Requests :
          \/ createAccount(p)
          \/ CreatePlain(p)
          \/ InsertAccount(p)
          \/ InsertInitial(p)
          \/ CommitCreate(p)
          \/ CreateFailure(p)

SpecCreate == Init /\ [][NextCreate]_vars

\* ---------------------------------------------------------- monthly summary
MaxRows == 2         \* rows of table transactions in the summary scenario

\* CHECK (status IN ('pending', 'completed', 'failed', 'cancelled'))
TransactionStatuses == {"pending", "completed", "failed", "cancelled"}

\* calendar months (year and month of created_at) of the scenario's rows
Months == {1, 2}

\* the rows table transactions can hold, by the columns the summary reads
StoredRows ==
    [account_id : Accounts, transaction_type : {"deposit", "withdrawal"},
     amount : {1, 2}, status : TransactionStatuses, month : Months]

\* tables of at most MaxRows rows
StoredTables == UNION {[1..n -> StoredRows] : n \in 0..MaxRows}

\* WHERE account_id = $1 AND EXTRACT(YEAR FROM created_at) = $2 AND
\* EXTRACT(MONTH FROM created_at) = $3: the positions of the selected rows
SelectedRows(accountId, month) ==
    {i \in 1..Len(txlog) : /\ txlog[i].account_id = accountId
                           /\ txlog[i].month = month}

\* SUM(amount) over the rows at positions S
RECURSIVE SumAmount(_)
SumAmount(S) ==
    IF S = {} THEN 0
    ELSE LET i == CHOOSE x \in S : TRUE IN txlog[i].amount + SumAmount(S \ {i})

\* TransactionRepository.getMonthlyTransactionSummary: GROUP BY
\* transaction_type with COUNT(*), SUM(amount) and AVG(amount); the average is
\* written as the quotient <<sum, count>>
MonthlySummary(accountId, month) ==
    LET sel == SelectedRows(accountId, month)
        types == {txlog[i].transaction_type : i \in sel}
        group(ty) == {i \in sel : txlog[i].transaction_type = ty}
    IN  [ty \in types |->
            [transaction_count |-> Cardinality(group(ty)),
             total_amount |-> SumAmount(group(ty)),
             average_amount |-> <<SumAmount(group(ty)),
                                  Cardinality(group(ty))>>]]

\* AccountService.getMonthlyTransactionSummary(accountId, year, month)
getMonthlyTransactionSummary(p) ==
    /\ pc[p] = "idle"
    /\ \E accountId \in AccountIds, month \in Months :
         /\ op' = [op EXCEPT ![p] = [kind |-> "summary", from |-> accountId,
                                     to |-> 0, amount |-> 0, ref |-> 0,
                                     month |-> month]]
         /\ ret' = [ret EXCEPT ![p] = <<MonthlySummary(accountId, month)>>]
    /\ pc' = [pc EXCEPT ![p] = "done"]
    /\ res' = [res EXCEPT ![p] = "ok"]
    /\ UNCHANGED <<balance, txlog, lockHolder, rd, wbal, wrec, err,
                   accountRow, client>>

\* one summary request over any table the schema admits
InitSummary ==
    /\ balance = [a \in Accounts |-> InitCents]
    /\ txlog \in StoredTables
    /\ lockHolder = [a \in Accounts |-> NoProc]
    /\ pc = [p \in {1} |-> "idle"]
    /\ op = [p \in {1} |-> NoOp]
    /\ rd = [p \in {1} |-> NoRead]
    /\ wbal = [p \in {1} |-> NoWrites]
    /\ wrec = [p \in {1} |-> <<>>]
    /\ err = [p \in {1} |-> "none"]
    /\ res = [p \in {1} |-> "none"]
    /\ ret = [p \in {1} |-> <<>>]
    /\ accountRow = [a \in Accounts |-> NewAccountRow]
    /\ client = [p \in {1} |-> NoClient]

NextSummary == \E p \in Requests : getMonthlyTransactionSummary(p)

SpecSummary == InitSummary /\ [][NextSummary]_vars

\* ------------------------------------------------------- transfers in a ring
\* AccountService.transfer as the requests of the ring scenario call it: from
\* an account to the next one (the last to the first), all with one amount,
\* each with a reference number of its own
ring_transfer(p) ==
    /\ pc[p] = "idle"
    /\ \E f \in Accounts, amt \in AmountInputs :
         /\ ValidAmount(amt)
         /\ \A q \in Requests : op[q].kind # "none" => op[q].amount = amt
         /\ op' = [op EXCEPT ![p] = [kind |-> "transfer", from |-> f,
                                     to |-> (f % NumAccounts) + 1,
                                     amount |-> amt, ref |-> p]]
    /\ pc' = [pc EXCEPT ![p] = AfterConnect]
    /\ client' = ClientAfterConnect(p)
    /\ UNCHANGED <<balance, txlog, lockHolder, rd, wbal, wrec, err, res, ret,
                   accountRow>>

\* as many requests as there are accounts
InitRing == InitWith(1..NumAccounts)

NextRing ==
    \E p \in Requests :
        \/ ring_transfer(p)
        \/ Step(p)
        \/ StatementTimeout(p)

SpecRing == InitRing /\ [][NextRing]_vars

\* ------------------------------------------- deposits and withdrawals only
\* the errors the code base defines as classes (BankingError and its
\* subclasses ValidationError, AccountNotFoundError, InsufficientFundsError);
\* any other error a caller receives is the database driver's own
TypedErrors ==
    {AmountError, SameAccountError, "AccountNotFound", "InsufficientFunds"}

\* deposits and withdrawals against a store that answers every statement and
\* cancels none
NextSingles ==
    \E p \in Requests :
        \/ deposit(p)
        \/ withdraw(p)
        \/ LockFrom(p)
        \/ UpdateFrom(p)
        \/ InsertOut(p)
        \/ Commit(p)
        \/ Rollback(p)

\* a started request is always run on: the event loop resumes it when its
\* statement is answered, and the database answers a statement that does not
\* wait
SpecSingles ==
    /\ Init
    /\ [][NextSingles]_vars
    /\ \A p \in Procs :
          WF_vars(LockFrom(p) \/ UpdateFrom(p) \/ InsertOut(p)
                  \/ Commit(p) \/ Rollback(p))

TypeOK ==
    /\ \A a \in Accounts : balance[a] \in Int
    /\ \A a \in Accounts : lockHolder[a] \in Requests \cup {NoProc}
    /\ \A p \in Requests : Len(wrec[p]) <= 2
    /\ \A p \in Requests :
          /\ client[p].state \in {"none", "checkedOut", "released"}
          /\ client[p].released \in Nat
          /\ client[p].inTxn \in BOOLEAN

\* ================================================================ claims
\* rows of the committed log that request p inserted
RowsOf(p) == {t \in Committed : t.txn = p}

\* the balance request p read under lock for account a
ReadOf(p, a) == IF a = op[p].from THEN rd[p].from ELSE rd[p].to

Ended(p) == pc[p] = "done"
Succeeded(p) == pc[p] = "done" /\ res[p] = "ok"
Failed(p) == pc[p] = "done" /\ res[p] \notin {"ok", "none"}

\* C1: in every committed state, under every interleaving of deposits,
\* withdrawals and transfers, every account's balance is >= 0.
C1_BalanceNonNegative == \A a \in Accounts : balance[a] >= 0

\* C1 witness: two requests debited the same account; one committed and emptied
\* it, the other was refused for insufficient funds.
C1_Witness ==
    \E p \in Requests, q \in Requests :
        /\ p # q
        /\ Succeeded(p) /\ op[p].kind \in {"withdrawal", "transfer"}
        /\ Failed(q) /\ res[q] = "InsufficientFunds"
        /\ op[q].from = op[p].from
        /\ balance[op[p].from] = 0

\* C2: N concurrent withdrawals of one amount W against one account holding B,
\* nothing else touching it: exactly floor(B/W) commit (all N when fewer were
\* issued), every other one fails with InsufficientFunds, and the final balance
\* is B - W * (number committed).
C2_ConcurrentWithdrawals ==
    (\A p \in Requests : Ended(p)) =>
        LET first == CHOOSE p \in Requests : TRUE
            account == op[first].from
            W == op[first].amount
            B == ParseFloat(InitCents)
            ok == {p \in Requests : Succeeded(p)}
            expected == IF B \div W < Cardinality(Requests)
                        THEN B \div W ELSE Cardinality(Requests)
        IN  /\ Cardinality(ok) = expected
            /\ \A p \in Requests \ ok : res[p] = "InsufficientFunds"
            /\ ParseFloat(balance[account]) = B - W * Cardinality(ok)

\* C3: when a transfer of amount A from X to Y commits, balance(X) is exactly A
\* lower and balance(Y) exactly A higher than the balances the transfer read
\* under lock, and it has added exactly two rows, one on X and one on Y, that
\* share one correlated reference number.
C3_TransferMovesExactAmount ==
    [][\A p \in Requests :
          (IsTransfer(p) /\ pc[p] = "commit" /\ Succeeded(p)') =>
             LET added == SubSeq(txlog', Len(txlog) + 1, Len(txlog')) IN
             /\ ParseFloat(balance'[op[p].from])
                    = ParseFloat(rd[p].from) - op[p].amount
             /\ ParseFloat(balance'[op[p].to])
                    = ParseFloat(rd[p].to) + op[p].amount
             /\ Len(added) = 2
             /\ added[1].account_id = op[p].from
             /\ added[2].account_id = op[p].to
             /\ added[1].reference_number[1] = added[2].reference_number[1]
      ]_vars

\* C4: when a deposit, withdrawal or transfer fails after its first write, the
\* rollback undoes every write it made: it changes no committed balance and no
\* committed row, the accounts it had locked hold the balances it read at its
\* start, and the log holds no row of it.
C4_AbortUndoesWrites ==
    [][\A p \in Requests :
          (pc[p] = "rollback" /\ pc'[p] = "done") =>
             /\ balance' = balance
             /\ txlog' = txlog
             /\ \A a \in Accounts :
                    lockHolder[a] = p => balance'[a] = ReadOf(p, a)
             /\ \A i \in 1..Len(txlog') : txlog'[i].txn # p
      ]_vars

\* C4 witness: a transfer failed at its INSERT, after both balance writes (a
\* committed row of another request already had its reference number), and
\* has been rolled back.
C4_Witness ==
    \E p \in Requests, q \in Requests :
        /\ IsTransfer(p) /\ Failed(p) /\ res[p] = "Conflict"
        /\ Succeeded(q)

\* C5: transfers take their two account locks in one fixed total order, whatever
\* the caller named as source and as destination: two transfers over the same
\* pair of accounts request the two locks in the same order.
C5_FixedLockOrder ==
    \A p \in Requests, q \in Requests :
        ( /\ IsTransfer(p) /\ pc[p] \in InTxn
          /\ IsTransfer(q) /\ pc[q] \in InTxn
          /\ {op[p].from, op[p].to} = {op[q].from, op[q].to} )
        => LockOrder(p) = LockOrder(q)

\* request p holds the lock on account a and waits for the lock on account b
HoldsAndWaits(p, a, b) ==
    /\ a \in Accounts /\ lockHolder[a] = p
    /\ pc[p] = "lockTo" /\ LockOrder(p)[2] = b

\* C6: two concurrent transfers in opposite directions over one pair of
\* accounts never reach a circular wait, each holding the lock on one account
\* and waiting for the lock the other holds.
C6_NoCircularWait ==
    ~ \E p \in Requests, q \in Requests, a \in Accounts, b \in Accounts :
          /\ p # q /\ a # b
          /\ HoldsAndWaits(p, a, b)
          /\ HoldsAndWaits(q, b, a)

\* what one committed request leaves: its rows, and on each account it wrote
\* the balance its row of that account records
CompleteEffect(p, added, bal) ==
    IF IsTransfer(p)
    THEN /\ Len(added) = 2
         /\ added[1].transaction_type = "transfer_out"
         /\ added[1].account_id = op[p].from
         /\ added[2].transaction_type = "transfer_in"
         /\ added[2].account_id = op[p].to
         /\ bal[op[p].from] = added[1].balance_after
         /\ bal[op[p].to] = added[2].balance_after
    ELSE /\ Len(added) = 1
         /\ added[1].account_id = op[p].from
         /\ bal[op[p].from] = added[1].balance_after

\* C8: no partially committed state is observable.  What a reader outside the
\* unit sees (committed balances and committed rows) changes only at the commit
\* of one request, and then by all of that request's effects at once: both
\* balances of a transfer with both its rows, a balance with its row.
C8_NoPartialCommit ==
    [][ \/ (balance' = balance /\ txlog' = txlog)
        \/ \E p \in Requests :
              /\ pc[p] = "commit" /\ Succeeded(p)'
              /\ Len(txlog') >= Len(txlog)
              /\ SubSeq(txlog', 1, Len(txlog)) = txlog
              /\ CompleteEffect(p, SubSeq(txlog', Len(txlog) + 1, Len(txlog')),
                                balance')
              /\ \A a \in Accounts \ {op[p].from, op[p].to} :
                     balance'[a] = balance[a]
      ]_vars

\* C8 witness: a transfer has written both balances and both rows and has not
\* committed; the committed balances of its two accounts are still the ones it
\* read, and differ from the ones it wrote.
C8_Witness ==
    \E p \in Requests :
        /\ IsTransfer(p) /\ pc[p] = "commit"
        /\ Len(wrec[p]) = 2
        /\ balance[op[p].from] = rd[p].from /\ wbal[p][op[p].from] # rd[p].from
        /\ balance[op[p].to] = rd[p].to /\ wbal[p][op[p].to] # rd[p].to
        /\ RowsOf(p) = {}

\* C9: every committed row has balance_after = balance_before + amount when it
\* is a deposit or transfer_in, and balance_after = balance_before - amount when
\* it is a withdrawal or transfer_out.
C9_RowArithmetic ==
    \A t \in Committed :
        IF t.transaction_type \in {"deposit", "transfer_in"}
        THEN t.balance_after = t.balance_before + t.amount
        ELSE t.balance_after = t.balance_before - t.amount

\* C7: a request whose statement waits for a lock is cancelled with a timeout
\* error instead of waiting for ever, a request that timed out has been rolled
\* back (it holds no lock and has left no row), and every started deposit,
\* withdrawal or transfer eventually ends, committed or aborted.
C7_EveryRequestEnds ==
    /\ \A p \in Procs : (pc[p] \in InTxn) ~> Ended(p)
    /\ [](\A p \in Procs :
            res[p] = "Timeout" =>
               /\ Ended(p)
               /\ \A a \in Accounts : lockHolder[a] # p
               /\ wbal[p] = NoWrites /\ wrec[p] = <<>>
               /\ RowsOf(p) = {})

\* C7 witness: of two transfers in opposite directions over one pair of
\* accounts, one timed out and the other then committed.
C7_Witness ==
    \E p \in Requests, q \in Requests :
        /\ IsTransfer(p) /\ Failed(p) /\ res[p] = "Timeout"
        /\ IsTransfer(q) /\ Succeeded(q)
        /\ op[q].from = op[p].to /\ op[q].to = op[p].from

NeverInTxn(p) ==
    /\ pc[p] \notin InTxn \cup {"rollback"}
    /\ rd[p] = NoRead /\ err[p] = "none"
    /\ wbal[p] = NoWrites /\ wrec[p] = <<>>
    /\ RowsOf(p) = {}
    /\ \A a \in Accounts : lockHolder[a] # p

\* C11: a withdrawal on an existing account commits if and only if the balance
\* it read under lock is >= the amount (a withdrawal of the whole balance
\* commits and leaves 0); otherwise it fails with InsufficientFunds, having
\* written nothing.
C11_WithdrawIffFunds ==
    \A p \in Requests :
        (op[p].kind = "withdrawal" /\ rd[p].from # NULL /\ Ended(p)) =>
            /\ Succeeded(p) <=> ParseFloat(rd[p].from) >= op[p].amount
            /\ ~Succeeded(p) => res[p] = "InsufficientFunds" /\ RowsOf(p) = {}
            /\ (Succeeded(p) /\ ParseFloat(rd[p].from) = op[p].amount)
                  => \A t \in RowsOf(p) : t.balance_after = 0

\* C12: a deposit, withdrawal or transfer whose amount is not > 0 is rejected
\* with a validation error before any lock is requested and before any
\* transaction is opened; it changes no balance and writes no row.
C12_InvalidAmountRejected ==
    \A p \in Requests :
        (op[p].kind # "none" /\ op[p].amount <= 0) =>
            /\ Ended(p)
            /\ res[p] \in {AmountError, SameAccountError}
            /\ NeverInTxn(p)

\* C12 witness: a request with amount 0 or below was rejected for its amount
\* while another request held the lock on the account it named.
C12_Witness ==
    \E p \in Requests, q \in Requests :
        /\ op[p].kind # "none" /\ op[p].amount <= 0
        /\ Ended(p) /\ res[p] = AmountError
        /\ op[p].from \in Accounts /\ lockHolder[op[p].from] = q
        /\ pc[q] = "commit"

\* C13: a transfer whose source and destination are the same account fails with
\* the same-account error, takes no lock, changes no balance and writes no row;
\* no committed transfer_out or transfer_in row has its own account as related
\* account.
C13_SameAccountRejected ==
    /\ \A p \in Requests :
          (op[p].kind = "transfer" /\ op[p].from = op[p].to) =>
              /\ Ended(p)
              /\ res[p] = SameAccountError
              /\ NeverInTxn(p)
    /\ \A t \in Committed :
          t.transaction_type \in {"transfer_out", "transfer_in"}
              => t.related_account_id # t.account_id

\* C13 witness: a transfer from an existing account to itself, with a valid
\* amount, was rejected, and a transfer between that account and another one
\* has committed its two rows.
C13_Witness ==
    \E p \in Requests, q \in Requests :
        /\ op[p].kind = "transfer" /\ op[p].from = op[p].to
        /\ op[p].amount > 0
        /\ Ended(p) /\ res[p] = SameAccountError
        /\ op[p].from \in Accounts
        /\ IsTransfer(q) /\ Succeeded(q) /\ Cardinality(RowsOf(q)) = 2
        /\ op[p].from \in {op[q].from, op[q].to}

\* request p names an account that does not exist
NamesAbsent(p) ==
    /\ op[p].kind # "none"
    /\ \/ op[p].from \notin Accounts
       \/ IsTransfer(p) /\ op[p].to \notin Accounts

C15_ErrorAfterRollback ==
    \A p \in Requests :
        /\ pc[p] = "rollback" => res[p] = "none"
        /\ (Ended(p) /\ err[p] # "none") =>
              /\ res[p] = err[p]
              /\ wbal[p] = NoWrites /\ wrec[p] = <<>>
              /\ \A a \in Accounts : lockHolder[a] # p

\* request p has read account a FOR UPDATE in its transaction, which is open
Holding(p, a) ==
    /\ a \in Accounts
    /\ pc[p] \in InTxn \cup {"rollback"}
    /\ \/ op[p].from = a /\ rd[p].from # NULL
       \/ IsTransfer(p) /\ op[p].to = a /\ rd[p].to # NULL

\* C16: the lock a locked read takes is exclusive and lasts until the unit
\* commits or aborts: no two open transactions have both read the same account
\* FOR UPDATE, the reader keeps the row lock while its transaction is open, and
\* a request gets past its locked read of an account only when no other open
\* transaction has read it FOR UPDATE.
C16_ExclusiveLock ==
    /\ [](\A a \in Accounts :
            /\ Cardinality({p \in Requests : Holding(p, a)}) <= 1
            /\ \A p \in Requests : Holding(p, a) => lockHolder[a] = p)
    /\ [][\A p \in Requests, a \in Accounts :
            (~Holding(p, a) /\ Holding(p, a)') =>
                \A q \in Requests \ {p} : ~Holding(q, a)]_vars

\* C16 witness: two deposits of 0.01 on one account both committed, the second
\* having read under lock the balance the first one committed.
C16_Witness ==
    \E p \in Requests, q \in Requests :
        /\ p # q
        /\ op[p].kind = "deposit" /\ op[q].kind = "deposit"
        /\ op[p].from = op[q].from
        /\ op[p].amount = 10 /\ op[q].amount = 10
        /\ Succeeded(p) /\ Succeeded(q)
        /\ rd[q].from = rd[p].from + 1
        /\ balance[op[q].from] = rd[q].from + 1

\* request p cannot go on: it waits for a client of the pool, for a row lock
\* or for the unique index
Blocked(p) ==
    \/ pc[p] = "connect" /\ PoolExhausted
    \/ Waiting(p)

\* the accounts request p names
AccountsOf(p) ==
    IF IsTransfer(p) THEN {op[p].from, op[p].to} ELSE {op[p].from}

\* C17: a request is never blocked by requests in progress whose accounts are
\* all different from its own: whenever a request is blocked, some other
\* request in progress names an account the blocked request names.
C17_DisjointNeverBlock ==
    \A p \in Requests :
        Blocked(p) =>
            \E q \in CheckedOut \ {p} : AccountsOf(q) \cap AccountsOf(p) # {}

\* C18: the committed rows have pairwise different reference numbers.
C18_UniqueReferences ==
    \A i \in 1..Len(txlog), j \in 1..Len(txlog) :
        i # j => txlog[i].reference_number # txlog[j].reference_number

\* C18 witness: two requests were given the same generated value; the first
\* committed a deposit under it, the second, a withdrawal on another account
\* with sufficient funds, was refused at its INSERT.
C18_Witness ==
    \E p \in Requests, q \in Requests :
        /\ p # q /\ op[p].ref = op[q].ref /\ op[p].ref # 0
        /\ op[p].kind = "deposit" /\ Succeeded(p)
        /\ op[q].kind = "withdrawal" /\ op[q].from # op[p].from
        /\ Failed(q) /\ res[q] = "Conflict"

\* the row request p is about to insert
NextRow(p) == IF pc[p] = "insertIn" THEN InRow(p) ELSE OutRow(p)

\* C19: an INSERT of a row whose reference number a committed row already has
\* fails with the Conflict error, the caller receives that error, and the unit
\* is rolled back: no balance write and no row of the request remains.
C19_DuplicateIsConflict ==
    /\ [][\A p \in Requests :
            ( /\ pc[p] \in {"insertOut", "insertIn"}
              /\ RefCommitted(NextRow(p).reference_number)
              /\ pc'[p] # pc[p] )
            => (err'[p] = "Conflict" /\ pc'[p] = "rollback")]_vars
    /\ [](\A p \in Requests :
            (Ended(p) /\ err[p] = "Conflict") =>
                /\ res[p] = "Conflict"
                /\ wbal[p] = NoWrites /\ wrec[p] = <<>> /\ RowsOf(p) = {}
                /\ \A a \in Accounts : lockHolder[a] # p)

\* C20: the generator never gives the same reference number to two different
\* requests.
C20_GeneratorUnique ==
    \A p \in Requests, q \in Requests :
        (p # q /\ op[p].ref # 0 /\ op[q].ref # 0) => op[p].ref # op[q].ref

\* C27: GetBalance is a pure read.  The step by which a GetBalance call returns
\* changes no balance, no row, no pending write and no lock, and it returns the
\* committed balance of the account: the same result as an earlier call on the
\* same account whenever no commit has changed that balance since.
C27_PureRead ==
    [][\A p \in Requests :
          (pc[p] = "idle" /\ pc'[p] = "done" /\ op'[p].kind = "balance") =>
             /\ balance' = balance /\ txlog' = txlog
             /\ lockHolder' = lockHolder
             /\ wbal' = wbal /\ wrec' = wrec
             /\ \A q \in Requests \ {p} :
                   ( /\ op[q].kind = "balance" /\ Succeeded(q)
                     /\ op[q].from = op'[p].from
                     /\ ret[q][1].balance = ParseFloat(balance[op[q].from]) )
                   => (Succeeded(p)' /\ ret'[p] = ret[q])
      ]_vars

\* C27 witness: two GetBalance calls on one account returned the same result
\* while a request that holds the lock on that account has written another
\* balance and not yet committed.
C27_Witness ==
    \E p \in Requests, q \in Requests, w \in Requests :
        /\ p # q
        /\ op[p].kind = "balance" /\ Succeeded(p)
        /\ op[q].kind = "balance" /\ Succeeded(q)
        /\ op[p].from = op[q].from /\ ret[p] = ret[q]
        /\ lockHolder[op[p].from] = w
        /\ wbal[w][op[p].from] # NULL
        /\ wbal[w][op[p].from] # balance[op[p].from]

\* C21: the reference numbers of the two legs of a transfer are the value
\* generated for the transfer (transfer_out) and that value followed by '-' and
\* the source account id (transfer_in); every committed leg has its other leg
\* beside it under the reference number so derived, and no committed row of
\* another operation carries the same generated value.
C21_LegReferences ==
    \A t \in Committed :
        /\ t.transaction_type = "transfer_out" =>
              /\ t.reference_number[2] = 0
              /\ \E i \in Committed :
                    /\ i.transaction_type = "transfer_in"
                    /\ i.txn = t.txn
                    /\ i.account_id = t.related_account_id
                    /\ i.reference_number
                          = <<t.reference_number[1], t.account_id>>
        /\ t.transaction_type = "transfer_in" =>
              \E o \in Committed :
                    /\ o.transaction_type = "transfer_out"
                    /\ o.txn = t.txn
                    /\ o.account_id = t.related_account_id
                    /\ t.reference_number
                          = <<o.reference_number[1], o.account_id>>
        /\ \A u \in Committed :
              u.txn # t.txn => u.reference_number[1] # t.reference_number[1]

\* C21 witness: two transfers out of the same account have committed, so their
\* transfer_in rows carry the same suffix and differ in the generated value.
C21_Witness ==
    \E p \in Requests, q \in Requests :
        /\ p # q
        /\ IsTransfer(p) /\ Succeeded(p) /\ Cardinality(RowsOf(p)) = 2
        /\ IsTransfer(q) /\ Succeeded(q) /\ Cardinality(RowsOf(q)) = 2
        /\ op[p].from = op[q].from

\* C22: a committed transfer from X to Y has appended a transfer_out row owned
\* by X with related account Y and a transfer_in row owned by Y with related
\* account X, both with the transfer's amount, and the row returned to the
\* caller is the transfer_out row.
C22_TransferRecords ==
    \A p \in Requests :
        (IsTransfer(p) /\ Succeeded(p)) =>
            \E o \in RowsOf(p), i \in RowsOf(p) :
                /\ RowsOf(p) = {o, i}
                /\ o.transaction_type = "transfer_out"
                /\ o.account_id = op[p].from
                /\ o.related_account_id = op[p].to
                /\ i.transaction_type = "transfer_in"
                /\ i.account_id = op[p].to
                /\ i.related_account_id = op[p].from
                /\ ParseFloat(o.amount) = op[p].amount
                /\ ParseFloat(i.amount) = op[p].amount
                /\ ret[p] = <<o>>

\* the latest committed row of account a is row t
LatestOn(a, t) ==
    \E k \in 1..Len(txlog) :
        /\ txlog[k] = t
        /\ \A j \in (k + 1)..Len(txlog) : txlog[j].account_id # a

\* C23: a committed deposit of amount A on an account whose locked balance was
\* b has appended exactly one row, of type deposit, with balance_before = b and
\* balance_after = b + A; that row is the one returned to the caller, and the
\* balance is b + A until a later operation on the account commits.
C23_DepositEffect ==
    \A p \in Requests :
        (op[p].kind = "deposit" /\ Succeeded(p)) =>
            \E t \in RowsOf(p) :
                /\ RowsOf(p) = {t}
                /\ t.transaction_type = "deposit"
                /\ t.account_id = op[p].from
                /\ t.balance_before = rd[p].from
                /\ ParseFloat(t.balance_after)
                      = ParseFloat(rd[p].from) + op[p].amount
                /\ ret[p] = <<t>>
                /\ LatestOn(op[p].from, t) =>
                      ParseFloat(balance[op[p].from])
                          = ParseFloat(rd[p].from) + op[p].amount

\* C24: after a deposit of x on account A and then a withdrawal of x on A, with
\* no other operation on A in between, A's balance is the one the deposit
\* found, and the two have appended exactly two rows that mirror each other:
\* the withdrawal's balance_before is the deposit's balance_after and the
\* withdrawal's balance_after is the deposit's balance_before.
C24_DepositThenWithdraw ==
    \A p \in Requests, q \in Requests :
        ( /\ op[p].kind = "deposit" /\ Succeeded(p)
          /\ op[q].kind = "withdrawal" /\ Succeeded(q)
          /\ op[p].from = op[q].from /\ op[p].amount = op[q].amount
          /\ Len(txlog) >= 2 /\ txlog[Len(txlog) - 1].txn = p
          /\ txlog[Len(txlog)].txn = q )
        => /\ balance[op[p].from] = rd[p].from
           /\ \E d \in RowsOf(p), w \in RowsOf(q) :
                 /\ RowsOf(p) = {d} /\ RowsOf(q) = {w}
                 /\ w.balance_before = d.balance_after
                 /\ w.balance_after = d.balance_before

\* C25: the log is append-only and its rows are immutable: every step, of an
\* operation that succeeds or of one that fails, leaves every committed row in
\* place with every field unchanged, and only adds rows after them.
C25_AppendOnly ==
    [][ /\ Len(txlog') >= Len(txlog)
        /\ SubSeq(txlog', 1, Len(txlog)) = txlog ]_vars

\* C25 witness: after a request committed a row on an account, another request
\* read the balance so committed, wrote, failed and was rolled back; the row
\* is still there.
C25_Witness ==
    \E p \in Requests, q \in Requests :
        /\ p # q
        /\ Succeeded(p) /\ RowsOf(p) # {}
        /\ Failed(q) /\ op[q].from = op[p].from
        /\ res[q] \in {"StorageFailure", "Conflict"}
        /\ rd[q].from # NULL /\ rd[q].from # InitCents

\* C26: every balance write happens under the lock the writing operation took
\* on that account in the same unit.  A request that has written the balance
\* of an account and not yet ended its unit holds the lock on that account,
\* taken by its own locked read of it; and a committed balance changes only by
\* the commit of the request that holds the lock on it, to the value that
\* request wrote.
C26_WritesUnderLock ==
    [][ /\ \A p \in Requests, a \in Accounts :
              wbal'[p][a] # NULL =>
                  /\ lockHolder'[a] = p
                  /\ pc'[p] \in InTxn \cup {"rollback"}
                  /\ ReadOf(p, a)' # NULL
        /\ \A a \in Accounts :
              balance'[a] # balance[a] =>
                  \E p \in Requests :
                      /\ lockHolder[a] = p /\ pc[p] = "commit"
                      /\ ReadOf(p, a) # NULL
                      /\ balance'[a] = wbal[p][a]
      ]_vars

\* C26 witness: a transfer holds both locks and has written both balances
\* while another request waits for one of the two accounts.
C26_Witness ==
    \E p \in Requests, q \in Requests :
        /\ IsTransfer(p)
        /\ op[p].from \in Accounts /\ op[p].to \in Accounts
        /\ wbal[p][op[p].from] # NULL /\ wbal[p][op[p].to] # NULL
        /\ lockHolder[op[p].from] = p /\ lockHolder[op[p].to] = p
        /\ q # p /\ Waiting(q) /\ pc[q] = "lockFrom"
        /\ op[q].from = op[p].to

\* C28: every committed row has an amount strictly greater than 0, whichever
\* operation wrote it: deposit, withdrawal, either leg of a transfer, or the
\* initial deposit of an account creation.
C28_AmountPositive == \A t \in Committed : t.amount > 0

\* C28 witness: a request whose amount rounds to 0.00 on storage was refused by
\* the database, and the log holds the initial deposit row of an account
\* creation.
C28_Witness ==
    \E p \in Requests, q \in Requests :
        /\ op[p].kind # "none" /\ op[p].amount > 0
        /\ StoreDecimal(op[p].amount) = 0
        /\ Failed(p) /\ res[p] = "CheckViolation"
        /\ op[q].kind = "create" /\ Succeeded(q) /\ RowsOf(q) # {}

RunAlone(p, bal, log) ==
    LET o == op[p]
        refs == {t.reference_number : t \in log}
        unchanged(e) == [out |-> e, bal |-> bal, log |-> log]
    IN
    IF o.kind = "transfer" /\ SameAccount(o.from, o.to)
    THEN unchanged(SameAccountError)
    ELSE IF ~ValidAmount(o.amount)
    THEN unchanged(AmountError)
    ELSE IF o.from \notin Accounts \/ (o.kind = "transfer" /\ o.to \notin Accounts)
    THEN unchanged("AccountNotFound")
    ELSE IF o.kind # "deposit" /\ ParseFloat(bal[o.from]) < o.amount
    THEN unchanged("InsufficientFunds")
    ELSE
    LET before == ParseFloat(bal[o.from])
        after == IF o.kind = "deposit" THEN JsAdd(before, o.amount)
                                        ELSE JsAdd(before, 0 - o.amount)
        out == Row(p, o.from,
                   IF o.kind = "transfer" THEN "transfer_out" ELSE o.kind,
                   before, after, RefPlain(o.ref),
                   IF o.kind = "transfer" THEN o.to ELSE NULL)
    IN
    IF o.kind # "transfer"
    THEN IF ~BalanceCheck(StoreDecimal(after)) \/ ~AmountCheck(out.amount)
         THEN unchanged("CheckViolation")
         ELSE IF out.reference_number \in refs
         THEN unchanged("Conflict")
         ELSE [out |-> "ok",
               bal |-> [bal EXCEPT ![o.from] = StoreDecimal(after)],
               log |-> log \cup {out}]
    ELSE
    LET toBefore == ParseFloat(bal[o.to])
        toAfter == JsAdd(toBefore, o.amount)
        in == Row(p, o.to, "transfer_in", toBefore, toAfter,
                  RefSuffixed(o.ref, o.from), o.from)
    IN
    IF \/ ~BalanceCheck(StoreDecimal(after))
       \/ ~BalanceCheck(StoreDecimal(toAfter))
       \/ ~AmountCheck(out.amount)
    THEN unchanged("CheckViolation")
    ELSE IF out.reference_number \in refs \/ in.reference_number \in refs
    THEN unchanged("Conflict")
    ELSE [out |-> "ok",
          bal |-> [bal EXCEPT ![o.from] = StoreDecimal(after),
                              ![o.to] = StoreDecimal(toAfter)],
          log |-> log \cup {out, in}]

\* the requests of sequence order run one after the other from the initial
\* balances and the empty log: outcome of each, final balances, final rows
RECURSIVE RunInOrder(_, _)
RunInOrder(order, k) ==
    IF k = 0
    THEN [out |-> [p \in {} |-> "none"],
          bal |-> [a \in Accounts |-> InitCents], log |-> {}]
    ELSE LET prev == RunInOrder(order, k - 1)
             this == RunAlone(order[k], prev.bal, prev.log)
         IN  [out |-> (order[k] :> this.out) @@ prev.out,
              bal |-> this.bal, log |-> this.log]

\* the sequences that hold every request of set S once
Orders(S) ==
    {s \in [1..Cardinality(S) -> S] : \A i, j \in DOMAIN s : s[i] = s[j] => i = j}

\* some order of the requests of S, run one at a time, gives the committed
\* balances, the committed rows and, for every request of S, its outcome
SerialisableOver(S) ==
    \E order \in Orders(S) :
        LET run == RunInOrder(order, Cardinality(S)) IN
        /\ run.bal = balance
        /\ run.log = Committed
        /\ \A p \in S : run.out[p] = res[p]

RECURSIVE AmountOfType(_, _)
AmountOfType(ty, k) ==
    IF k = 0 THEN 0
    ELSE AmountOfType(ty, k - 1)
         + (IF txlog[k].transaction_type = ty THEN txlog[k].amount ELSE 0)

\* sum of the committed balances of the accounts of set S
RECURSIVE TotalBalance(_)
TotalBalance(S) ==
    IF S = {} THEN 0
    ELSE LET a == CHOOSE x \in S : TRUE IN balance[a] + TotalBalance(S \ {a})

\* C31: money is conserved.  In every committed state the sum of all account
\* balances is the initial sum plus the amounts of the committed deposits
\* minus the amounts of the committed withdrawals; committed transfers and
\* failed operations do not change the sum.
C31_MoneyConserved ==
    TotalBalance(Accounts)
        = NumAccounts * InitCents
          + AmountOfType("deposit", Len(txlog))
          - AmountOfType("withdrawal", Len(txlog))

\* positions of the committed rows of account a
RowsOn(a) == {i \in 1..Len(txlog) : txlog[i].account_id = a}

\* C32: the log and the account store agree.  In every committed state, an
\* account with at least one committed row has the balance_after of its
\* latest row as its balance, and of two consecutive rows of one account the
\* later one's balance_before is the earlier one's balance_after.
C32_LogMatchesStore ==
    \A a \in DOMAIN balance :
        /\ \A i \in RowsOn(a) :
              (\A j \in RowsOn(a) : j <= i)
                  => balance[a] = txlog[i].balance_after
        /\ \A i \in RowsOn(a), j \in RowsOn(a) :
              (i < j /\ \A k \in RowsOn(a) : ~(i < k /\ k < j))
                  => txlog[j].balance_before = txlog[i].balance_after

\* C32 witness: an account has two committed rows written by two requests, the
\* later one the transfer_in row of a transfer.
C32_Witness ==
    \E a \in Accounts : \E i \in RowsOn(a), j \in RowsOn(a) :
        /\ i < j /\ txlog[i].txn # txlog[j].txn
        /\ txlog[j].transaction_type = "transfer_in"
        /\ txlog[i].balance_after # txlog[i].balance_before

\* request p holds the lock on an account and waits for a lock request q holds
WaitsFor(p, q) ==
    \E a \in Accounts, b \in Accounts :
        HoldsAndWaits(p, a, b) /\ lockHolder[b] = q

\* C33: concurrent transfers over three or more accounts (X to Y, Y to Z, Z to
\* X) never reach a cycle of requests each holding one account lock and
\* waiting for the lock the next one holds.
C33_NoWaitCycle ==
    ~ \E p \in Requests, q \in Requests, r \in Requests :
          /\ p # q /\ q # r /\ r # p
          /\ WaitsFor(p, q) /\ WaitsFor(q, r) /\ WaitsFor(r, p)

\* C34: concurrent deposits and withdrawals are deadlock-free.  Under fair
\* scheduling, on a store that does not fail, every started deposit or
\* withdrawal eventually ends, and it ends committed or with a typed error.
C34_SinglesTerminate ==
    /\ \A p \in Procs : (pc[p] \in InTxn) ~> Ended(p)
    /\ [](\A p \in Procs :
            Ended(p) => (Succeeded(p) \/ res[p] \in TypedErrors))

\* C35: a deposit, withdrawal or transfer returns a transaction row to its
\* caller if and only if its unit committed (the row is one of the rows it
\* committed), and returns an error if and only if it ended without
\* committing; a committed operation stays committed with its result, and an
\* operation that ended with an error stays so and never commits.
C35_OutcomeMatchesUnit ==
    [][\A p \in Requests :
          /\ (ret'[p] # <<>>) <=> (RowsOf(p)' # {})
          /\ Succeeded(p)' <=> (RowsOf(p)' # {})
          /\ Succeeded(p)' => ret'[p][1] \in RowsOf(p)'
          /\ Failed(p)' <=> (Ended(p)' /\ RowsOf(p)' = {})
          /\ Succeeded(p) => (Succeeded(p)' /\ ret'[p] = ret[p])
          /\ Failed(p) => (Failed(p)' /\ res'[p] = res[p])
      ]_vars

\* C35 witness: one request committed and was handed one of its rows; another
\* read a balance under lock, failed on the store and received the error.
C35_Witness ==
    \E p \in Requests, q \in Requests :
        /\ Succeeded(p) /\ ret[p] # <<>> /\ ret[p][1] \in RowsOf(p)
        /\ Failed(q) /\ res[q] = "StorageFailure" /\ rd[q].from # NULL
        /\ ret[q] = <<>> /\ RowsOf(q) = {}

\* C36: an operation changes only the accounts it names.  A committed balance
\* changes only at the commit of a request that names the account, a row is
\* appended only by the commit of a request that names the row's account (a
\* deposit or withdrawal names one account, a transfer two), and no step
\* changes an account's status, currency, type or owner.
C36_OnlyNamedAccounts ==
    [][ /\ accountRow' = accountRow
        /\ \A a \in Accounts :
              balance'[a] # balance[a] =>
                  \E p \in Requests :
                      /\ pc[p] = "commit" /\ Succeeded(p)'
                      /\ a \in AccountsOf(p)
        /\ \A i \in (Len(txlog) + 1)..Len(txlog') :
              \E p \in Requests :
                  /\ pc[p] = "commit" /\ Succeeded(p)'
                  /\ txlog'[i].txn = p
                  /\ txlog'[i].account_id \in AccountsOf(p)
      ]_vars

\* C36 witness: a transfer has committed and changed both its balances; an
\* account it does not name has its initial balance and no row.
C36_Witness ==
    \E p \in Requests :
        /\ IsTransfer(p) /\ Succeeded(p)
        /\ balance[op[p].from] # InitCents /\ balance[op[p].to] # InitCents
        /\ \E a \in Accounts \ AccountsOf(p) :
              balance[a] = InitCents /\ RowsOn(a) = {}

\* C37: on every exit path of processDeposit, processWithdrawal and
\* processTransfer (commit, typed failure, storage failure) the operation ends
\* its transaction and releases its pooled client exactly once: a request
\* holds a client exactly while its unit of work is open, never releases
\* twice, a released client carries no open transaction, and a request that
\* has returned holds no account lock, no client and no pending write, having
\* released once if it had taken a client and never if its input was refused
\* before the repository was called.
C37_ReleasedOnce ==
    \A p \in Requests :
        /\ client[p].released <= 1
        /\ (client[p].state = "checkedOut") <=> (p \in CheckedOut)
        /\ client[p].state = "checkedOut" =>
              client[p].inTxn /\ client[p].released = 0
        /\ client[p].state = "released" =>
              ~client[p].inTxn /\ client[p].released = 1
        /\ \A a \in Accounts : lockHolder[a] = p => client[p].state = "checkedOut"
        /\ Ended(p) =>
              /\ client[p].state \in {"none", "released"}
              /\ \A a \in Accounts : lockHolder[a] # p
              /\ wbal[p] = NoWrites /\ wrec[p] = <<>>
              /\ (client[p].state = "none") <=>
                    (res[p] \in {AmountError, SameAccountError})

\* C37 witness: one request has committed and another, a transfer, ended with
\* a storage failure; each released its client once with no transaction open
\* on it, and no account lock is held.
C37_Witness ==
    \E p \in Requests, q \in Requests :
        /\ Succeeded(p) /\ client[p] = [state |-> "released", released |-> 1,
                                        inTxn |-> FALSE]
        /\ Failed(q) /\ res[q] = "StorageFailure" /\ IsTransfer(q)
        /\ client[q] = [state |-> "released", released |-> 1, inTxn |-> FALSE]
        /\ \A a \in Accounts : lockHolder[a] = NoProc

\* C38: creating an account with an initial balance > 0 inserts the account
\* and exactly one deposit record (balance_before 0, balance_after = amount =
\* initial balance) in one atomic unit: in every committed state either both
\* exist or neither does, and both exist exactly when the creation succeeded;
\* creating with initial balance 0 inserts the account and no record; a
\* negative initial balance is rejected with nothing written.
C38_CreateAtomic ==
    \A p \in Requests :
        op[p].kind = "create" =>
            LET id == NewAccountId(p)
                initial == op[p].amount
            IN  /\ initial < 0 =>
                      /\ res[p] = NegativeBalanceError
                      /\ id \notin DOMAIN balance
                      /\ RowsOn(id) = {} /\ RowsOf(p) = {}
                /\ initial = 0 =>
                      /\ RowsOn(id) = {} /\ RowsOf(p) = {}
                      /\ Succeeded(p) <=> id \in DOMAIN balance
                      /\ id \in DOMAIN balance => balance[id] = 0
                /\ initial > 0 =>
                      /\ (id \in DOMAIN balance) <=> (RowsOn(id) # {})
                      /\ Succeeded(p) <=> id \in DOMAIN balance
                      /\ Cardinality(RowsOn(id)) <= 1
                      /\ \A i \in RowsOn(id) :
                            /\ txlog[i].txn = p
                            /\ txlog[i].transaction_type = "deposit"
                            /\ txlog[i].balance_before = 0
                            /\ ParseFloat(txlog[i].amount) = initial
                            /\ ParseFloat(txlog[i].balance_after) = initial
                            /\ ParseFloat(balance[id]) = initial

====
